---- MODULE Spec2Model ----
(***************************************************************************)
(* Model of the message-triage bot: the moderation stage, the FAQ matcher, *)
(* the mentor routing engine and the handle_message orchestrator, over the *)
(* relational store they share.                                            *)
(*                                                                         *)
(* Numbers in [0,1] (confidences, thresholds) are fixed-point integers in  *)
(* 0..Scale.  Embeddings are integer vectors; a cosine similarity is kept  *)
(* as the exact pair <<dot, na*nb>> standing for dot / sqrt(na*nb), and    *)
(* compared exactly, so floating-point rounding is not part of the model.  *)
(*                                                                         *)
(* Statements about what an operation returns or does are statements about *)
(* the calls that return; a failure of a collaborator (provider, store,    *)
(* transport) is part of a statement only where the statement names it.    *)
(***************************************************************************)
EXTENDS Integers, Sequences, FiniteSets, TLC

VARIABLES
    provider,               \* settings.LLM_PROVIDER
    threshold,              \* ModerationService.threshold, in 0..Scale
    similarity_threshold,   \* FAQService.similarity_threshold, in 0..Scale
    users,                  \* table users: set of rows
    messages,               \* table messages: set of rows
    modlogs,                \* table moderation_logs: set of rows
    faqs,                   \* table faqs: id -> [embedding, times_matched]
    faq_seq,                \* faqs.id autoincrement sequence (last value used)
    tags,                   \* table mentor_tags: set of rows
    obs,                    \* the last service call made on its own: input and outcome
    returned,               \* history: id -> number of find_matching_faq calls that returned it
    calls,                  \* history: number of service calls made on their own
    run                     \* handle_message invocations: slot -> position and locals

cfgVars   == <<provider, threshold, similarity_threshold>>
storeVars == <<users, messages, modlogs, faqs, faq_seq, tags>>
obsVars   == <<obs, returned, calls>>
vars      == <<cfgVars, storeVars, obsVars, run>>

---------------------------------------------------------------------------
(* Bounds of the model *)

Half     == 2      \* fixed-point value of 0.5; the unit interval is 0..2*Half
MaxCalls == 2      \* service calls made on their own in one behaviour
MaxRuns  == 2      \* slots for handle_message invocations

Scale == 2 * Half

Providers == {"openai", "claude", "gemini"}

Runs == 1..MaxRuns

NoUser == [id |-> 0, telegram_id |-> 0, is_admin |-> FALSE, is_mentor |-> FALSE]

NoResult == [is_appropriate |-> TRUE, category |-> "clean", confidence |-> 0]

NoDecision == [complexity |-> "", should_tag_mentors |-> FALSE, domains |-> << >>]

\* No FAQ reply sent: the reply names the entry whose question and answer it carries
NoReply == [question |-> 0, answer |-> 0]

\* A slot no update has been dispatched to; pc "off" is a slot that is not in use
IdleRun ==
    [pc |-> "idle", telegram_id |-> 0, message_id |-> 0,
     prior_user |-> NoUser, user_write |-> "", db_user |-> NoUser, db_message |-> 0,
     result |-> NoResult, should_delete |-> FALSE,
     q |-> << >>, row |-> 0, read |-> 0, faq_match |-> 0,
     decision |-> NoDecision, mentors |-> << >>, reply |-> NoReply, mention |-> << >>,
     mod_out |-> "", log_out |-> "", faq_out |-> "", route_out |-> "",
     exc |-> "", outcome |-> "", trace |-> << >>]

OffRun == [IdleRun EXCEPT !.pc = "off"]

NoRuns == run = [r \in Runs |-> OffRun]

NoCall == [op |-> "none", arg |-> << >>, ret |-> 0, fault |-> "none"]

---------------------------------------------------------------------------
(* Moderation stage: ModerationResult and the deletion decision *)

Categories == {"clean", "spam", "job_post", "suspicious_link", "harmful"}

ModerationResult == [is_appropriate : BOOLEAN, category : Categories, confidence : 0..Scale]

should_delete_no_category(result) ==
    (~result.is_appropriate) /\ result.confidence >= threshold

should_delete_strict(result) ==
    (~result.is_appropriate) /\ result.confidence > threshold /\ result.category # "clean"

should_delete(result) ==
    /\ ~result.is_appropriate
    /\ result.confidence >= threshold
    /\ result.category # "clean"

---------------------------------------------------------------------------
(* The deletion decision on its own: every result against every threshold *)

EmptyStore ==
    /\ users = {}
    /\ messages = {}
    /\ modlogs = {}
    /\ faqs = << >>
    /\ faq_seq = 0
    /\ tags = {}

NoObs ==
    /\ obs = NoCall
    /\ returned = << >>
    /\ calls = 0

InitDelete ==
    /\ provider = "openai"
    /\ threshold \in 0..Scale
    /\ similarity_threshold = Scale
    /\ EmptyStore
    /\ NoObs
    /\ NoRuns

ShouldDeleteCall ==
    /\ calls < MaxCalls
    /\ \E result \in ModerationResult :
          obs' = [op |-> "should_delete", arg |-> result,
                  ret |-> should_delete(result), fault |-> "none"]
    /\ calls' = calls + 1
    /\ UNCHANGED <<run, cfgVars, storeVars, returned>>

NextDelete == ShouldDeleteCall

SpecDelete == InitDelete /\ [][NextDelete]_vars

\* C1: should_delete returns true exactly when the result is not appropriate, its
\* confidence is at least the threshold and its category is not "clean"; a confidence
\* equal to the threshold deletes, one below it does not, and a "clean" or appropriate
\* result never deletes.
C1_ShouldDeleteExact ==
    obs.op = "should_delete" =>
        LET r == obs.arg IN
        /\ obs.ret \in BOOLEAN
        /\ obs.ret <=> ((r.is_appropriate = FALSE) /\ (r.confidence >= threshold)
                          /\ (r.category # "clean"))
        /\ (r.is_appropriate = FALSE /\ r.category # "clean" /\ r.confidence = threshold)
              => obs.ret = TRUE
        /\ r.confidence < threshold => obs.ret = FALSE
        /\ (r.category = "clean" \/ r.is_appropriate) => obs.ret = FALSE

\* C1 witness: an inappropriate, non-clean result exactly at a threshold strictly
\* inside (0,1) was decided (the boundary case), and was deleted.
C1_Witness ==
    /\ obs.op = "should_delete"
    /\ obs.arg.is_appropriate = FALSE
    /\ obs.arg.category = "spam"
    /\ threshold > 0 /\ threshold < Scale
    /\ obs.arg.confidence = threshold
    /\ obs.ret = TRUE

---------------------------------------------------------------------------
(* FAQ matcher: embeddings and the in-database cosine similarity *)

Dim     == 2      \* embedding dimensionality
MaxComp == 1      \* embedding components range over -MaxComp..MaxComp
MaxFaq  == 1      \* rows inserted into faqs by add_faq in one behaviour

Vectors == [1..Dim -> (-MaxComp)..MaxComp]

NullVec == << >>        \* SQL NULL in the embedding column
NoMatch == 0            \* find_matching_faq returning None (row ids start at 1)

EmbedVectorsAnyProvider == Vectors

\* get_embedding: Claude has no embeddings API and always raises; the other two
\* return the backend's vector, and any of them may raise on a backend error.
EmbedVectors == IF provider = "claude" THEN {} ELSE Vectors

RECURSIVE DotUpTo(_, _, _)
DotUpTo(a, b, n) == IF n = 0 THEN 0 ELSE a[n] * b[n] + DotUpTo(a, b, n - 1)

Dot(a, b) == DotUpTo(a, b, Dim)      \* SUM(a * b) over the joined ordinals
Norm2(a)  == Dot(a, a)               \* SUM(a * a)

\* The query's similarity column for one row: kind "null" is SQL NULL (unnest(NULL)
\* has no rows, so SUM and with it the whole expression is NULL), kind "div0" is the
\* float division raising "division by zero" (a zero SQRT product), and kind "num"
\* stands for dot / sqrt(nn).
SqlSimilarity(e, q) ==
    IF e = NullVec THEN [kind |-> "null", dot |-> 0, nn |-> 1]
    ELSE IF Norm2(e) * Norm2(q) = 0 THEN [kind |-> "div0", dot |-> 0, nn |-> 0]
    ELSE [kind |-> "num", dot |-> Dot(e, q), nn |-> Norm2(e) * Norm2(q)]

\* s1 <= s2 for two "num" similarities
SimLE(s1, s2) ==
    IF s1.dot < 0 /\ s2.dot >= 0 THEN TRUE
    ELSE IF s1.dot >= 0 /\ s2.dot < 0 THEN FALSE
    ELSE IF s1.dot >= 0 THEN s1.dot * s1.dot * s2.nn <= s2.dot * s2.dot * s1.nn
    ELSE s1.dot * s1.dot * s2.nn >= s2.dot * s2.dot * s1.nn

\* s >= t / Scale for a "num" similarity and a threshold t in 0..Scale
SimGEThreshold(s, t) ==
    /\ s.dot >= 0
    /\ s.dot * s.dot * Scale * Scale >= t * t * s.nn

RowsAllFaqs(f) == DOMAIN f

\* WHERE embedding IS NOT NULL
RowsWithEmbedding(f) == {id \in DOMAIN f : f[id].embedding # NullVec}

\* The query raises when the similarity of any selected row divides by zero
QueryRaises(f, q) ==
    \E id \in RowsWithEmbedding(f) : SqlSimilarity(f[id].embedding, q).kind = "div0"

\* The rows the query can return first (when it does not raise): none when the WHERE
\* clause leaves none; ORDER BY similarity DESC puts NULL similarities first, then the
\* greatest; LIMIT 1 takes one of the rows that tie.
TopRows(f, q) ==
    LET rows  == RowsWithEmbedding(f)
        sim(id) == SqlSimilarity(f[id].embedding, q)
        nulls == {id \in rows : sim(id).kind = "null"}
    IN  IF nulls # {} THEN nulls
        ELSE {id \in rows : \A other \in rows : SimLE(sim(other), sim(id))}

\* similarity = float(row.similarity) if row.similarity else 0.0
RowSimilarity(f, id, q) ==
    LET s == SqlSimilarity(f[id].embedding, q)
    IN  IF s.kind = "null" THEN [kind |-> "num", dot |-> 0, nn |-> 1] ELSE s

\* The ids find_matching_faq may return for question embedding q when neither the
\* provider nor the store fails; empty when it returns None.
MatchCandidates(f, q) ==
    IF QueryRaises(f, q) THEN {}
    ELSE {id \in TopRows(f, q) :
             SimGEThreshold(RowSimilarity(f, id, q), similarity_threshold)}

increment_twice(f, faq_id) ==
    IF faq_id \in DOMAIN f THEN [f EXCEPT ![faq_id].times_matched = @ + 2] ELSE f

increment_match_count(f, faq_id) ==
    IF faq_id \in DOMAIN f THEN [f EXCEPT ![faq_id].times_matched = @ + 1] ELSE f

\* find_matching_faq for question embedding q under fault (which call, if any, fails):
\* the set of possible outcomes [ret, faqs], one per row the query may put first.
\* Every failure is caught inside the function and turns into None; the increment
\* runs in its own session, whose failure rolls it back.
find_matching_faq(f, q, fault) ==
    IF fault \in {"embed", "query"} \/ MatchCandidates(f, q) = {}
    THEN {[ret |-> NoMatch, faqs |-> f]}
    ELSE IF fault \in {"select", "increment"}
    THEN {[ret |-> NoMatch, faqs |-> f]}
    ELSE {[ret |-> id, faqs |-> increment_match_count(f, id)] : id \in MatchCandidates(f, q)}

\* The calls of find_matching_faq that can fail for embedding q: the second and third
\* sessions are opened only when a row reached the threshold.
FindFaults(f, q) ==
    {"none", "query"} \cup
    (IF MatchCandidates(f, q) # {} THEN {"select", "increment"} ELSE {})

add_faq_without_embedding(f, seq, embedding) ==
    (seq + 1) :> [embedding |-> NullVec, times_matched |-> 0] @@ f

\* add_faq: the embedding is computed first; the row is inserted with it in one session
add_faq(f, seq, embedding) ==
    (seq + 1) :> [embedding |-> embedding, times_matched |-> 0] @@ f

---------------------------------------------------------------------------
(* The FAQ service on its own: calls made one after another on a growing store *)

\* Rows inserted before this process started: one loaded before embeddings existed,
\* one with an embedding that has been matched once.  Any of them may have been
\* deleted since; the id sequence stands after the last of them.
PreExisting ==
    <<[embedding |-> NullVec, times_matched |-> 0],
      [embedding |-> [i \in 1..Dim |-> 1], times_matched |-> 1]>>

InitialCount(id) == IF id \in DOMAIN PreExisting THEN PreExisting[id].times_matched ELSE 0

FaqIds == 1..(Len(PreExisting) + MaxFaq)

InitFaq ==
    /\ provider \in Providers
    /\ threshold = Scale
    /\ similarity_threshold \in 0..Scale
    /\ users = {} /\ messages = {} /\ modlogs = {} /\ tags = {}
    /\ \E kept \in SUBSET DOMAIN PreExisting : faqs = [id \in kept |-> PreExisting[id]]
    /\ faq_seq = Len(PreExisting)
    /\ obs = NoCall
    /\ returned = [id \in FaqIds |-> 0]
    /\ calls = 0
    /\ NoRuns

FindMatchingFaqCall ==
    /\ calls < MaxCalls
    /\ calls' = calls + 1
    /\ \/ /\ obs' = [op |-> "find_matching_faq", arg |-> NullVec, ret |-> NoMatch,
                     fault |-> "embed"]
          /\ UNCHANGED <<faqs, returned>>
       \/ \E q \in EmbedVectors : \E fault \in FindFaults(faqs, q) :
          \E out \in find_matching_faq(faqs, q, fault) :
             /\ obs' = [op |-> "find_matching_faq", arg |-> q, ret |-> out.ret,
                        fault |-> fault]
             /\ faqs' = out.faqs
             /\ returned' = IF out.ret = NoMatch THEN returned
                            ELSE [returned EXCEPT ![out.ret] = @ + 1]
    /\ UNCHANGED <<run, cfgVars, users, messages, modlogs, faq_seq, tags>>

AddFaqCall ==
    /\ faq_seq < Len(PreExisting) + MaxFaq
    /\ \/ /\ obs' = [op |-> "add_faq", arg |-> NullVec, ret |-> 0, fault |-> "embed"]
          /\ UNCHANGED <<faqs, faq_seq>>
       \/ \E e \in EmbedVectors :
             \/ /\ obs' = [op |-> "add_faq", arg |-> NullVec, ret |-> 0, fault |-> "store"]
                /\ UNCHANGED <<faqs, faq_seq>>
             \/ /\ obs' = [op |-> "add_faq", arg |-> NullVec, ret |-> faq_seq + 1, fault |-> "none"]
                /\ faqs' = add_faq(faqs, faq_seq, e)
                /\ faq_seq' = faq_seq + 1
    /\ UNCHANGED <<run, cfgVars, users, messages, modlogs, tags, returned, calls>>

NextFaq ==
    \/ FindMatchingFaqCall
    \/ AddFaqCall

SpecFaq == InitFaq /\ [][NextFaq]_vars

\* The cosine similarity the matcher is specified to rank by: dot / (|a| |b|), and 0
\* when either vector has zero norm.
SpecifiedCosine(a, b) ==
    IF Norm2(a) * Norm2(b) = 0 THEN [kind |-> "num", dot |-> 0, nn |-> 1]
    ELSE [kind |-> "num", dot |-> Dot(a, b), nn |-> Norm2(a) * Norm2(b)]

FindReturned == obs.op = "find_matching_faq" /\ obs.fault = "none"

\* C4: a find_matching_faq call in which neither the provider nor the store failed
\* returns a match exactly when the greatest cosine similarity between the question
\* and the rows with an embedding reaches the threshold, and the row returned is one
\* that attains the greatest similarity.
C4_MatchIffBestReachesThreshold ==
    FindReturned =>
        LET q    == obs.arg
            rows == {id \in DOMAIN faqs : faqs[id].embedding # NullVec}
            cos(id) == SpecifiedCosine(faqs[id].embedding, q)
        IN  /\ obs.ret # NoMatch <=>
                  \E id \in rows : SimGEThreshold(cos(id), similarity_threshold)
            /\ obs.ret # NoMatch =>
                  /\ obs.ret \in rows
                  /\ \A other \in rows : SimLE(cos(other), cos(obs.ret))

\* C5: each row's match counter equals its initial value plus the number of
\* find_matching_faq calls, made one after another, that returned that row.
C5_CounterCountsReturns ==
    \A id \in DOMAIN faqs :
        faqs[id].times_matched = InitialCount(id) + returned[id]

\* C5 witness: the same row was returned by two calls in a row, which took its
\* counter from N = 1 to N + 2, while another row exists whose counter did not move.
C5_Witness ==
    /\ 2 \in DOMAIN faqs /\ 3 \in DOMAIN faqs
    /\ returned[2] = 2
    /\ faqs[2].times_matched = 3
    /\ faqs[3].times_matched = 0
    /\ obs.op = "find_matching_faq" /\ obs.ret = 2

StoreWithoutNull(f) == [id \in {i \in DOMAIN f : f[i].embedding # NullVec} |-> f[id]]

\* C6: find_matching_faq never returns a row whose embedding is null, at any threshold
\* including 0, and the rows it may return are the same with and without the
\* null-embedding rows of the store.
C6_NullEmbeddingNeverSelected ==
    /\ (obs.op = "find_matching_faq" /\ obs.ret # NoMatch) =>
          /\ obs.ret \in DOMAIN faqs
          /\ faqs[obs.ret].embedding # NullVec
    /\ \A q \in Vectors :
          MatchCandidates(faqs, q) = MatchCandidates(StoreWithoutNull(faqs), q)

\* C6 witness: at threshold 0, with a null-embedding row in the store, a call returned
\* a row (one that has an embedding).
C6_Witness ==
    /\ similarity_threshold = 0
    /\ \E id \in DOMAIN faqs : faqs[id].embedding = NullVec
    /\ obs.op = "find_matching_faq"
    /\ obs.ret # NoMatch

\* C7: in a find_matching_faq call in which neither the provider nor the store failed,
\* the similarity of every ranked row is a number, and it is 0 when the question
\* embedding or the row's embedding has zero norm: the ranking never divides by zero.
C7_ZeroNormSimilarityIsZero ==
    FindReturned =>
        \A id \in RowsWithEmbedding(faqs) :
            LET s == SqlSimilarity(faqs[id].embedding, obs.arg)
            IN  /\ s.kind = "num"
                /\ (Norm2(faqs[id].embedding) = 0 \/ Norm2(obs.arg) = 0) => s.dot = 0

---------------------------------------------------------------------------
(* Configuration of roles, the users table and the mentor routing engine *)

MaxUser    == 4      \* platform user ids are 1..MaxUser
MaxDomains == 2      \* length of a requested domain list

TelegramIds == 1..MaxUser

\* settings.get_admin_ids() and settings.get_mentor_domains(): user 1 is the admin,
\* users 2 and 3 are mentors (3 in two domains), the others are ordinary members.
AdminIds == {1}

MentorDomains == [nlp |-> {2, 3}, cv |-> {3}, research |-> {}]

\* Domain names a routing decision may carry: the configured ones and one that is not
DomainNames == DOMAIN MentorDomains \cup {"robotics"}

DomainLists == UNION {[1..n -> DomainNames] : n \in 0..MaxDomains}

Range(seq) == {seq[i] : i \in DOMAIN seq}

is_admin_never(telegram_id) == FALSE

is_admin(telegram_id) == telegram_id \in AdminIds

is_mentor(telegram_id) ==
    \E domain \in DOMAIN MentorDomains : telegram_id \in MentorDomains[domain]

UserRow(us, telegram_id) ==
    IF \E u \in us : u.telegram_id = telegram_id
    THEN CHOOSE u \in us : u.telegram_id = telegram_id
    ELSE NoUser

\* _get_or_create_user in one piece: the row is inserted with the flags of the
\* configuration, or its flags are overwritten with them when they differ.
get_or_create_user(us, telegram_id) ==
    LET found == UserRow(us, telegram_id)
        fresh == [id |-> Cardinality(us) + 1, telegram_id |-> telegram_id,
                  is_admin |-> is_admin(telegram_id), is_mentor |-> is_mentor(telegram_id)]
        synced == [found EXCEPT !.is_admin = is_admin(telegram_id),
                                !.is_mentor = is_mentor(telegram_id)]
    IN  IF found = NoUser
        THEN [users |-> us \cup {fresh}, user |-> fresh]
        ELSE [users |-> (us \ {found}) \cup {synced}, user |-> synced]

create_user_always(us, telegram_id) ==
    us \cup {[id |-> Cardinality(us) + 1, telegram_id |-> telegram_id,
              is_admin |-> FALSE, is_mentor |-> FALSE]}

\* WelcomeService.create_or_update_user: a new row takes the column defaults (both
\* flags false); an existing row keeps its flags (only the names are rewritten).
create_or_update_user(us, telegram_id) ==
    IF UserRow(us, telegram_id) = NoUser
    THEN us \cup {[id |-> Cardinality(us) + 1, telegram_id |-> telegram_id,
                   is_admin |-> FALSE, is_mentor |-> FALSE]}
    ELSE us

\* sync_mentors: every configured mentor who has a row is flagged is_mentor
sync_mentors(us) ==
    {IF is_mentor(u.telegram_id) THEN [u EXCEPT !.is_mentor = TRUE] ELSE u : u \in us}

\* All orderings of a finite set of rows (a SELECT without ORDER BY)
Orderings(S) ==
    {seq \in [1..Cardinality(S) -> S] : \A i, j \in 1..Cardinality(S) : i # j => seq[i] # seq[j]}

ConfiguredMentorIds(domains) ==
    UNION {MentorDomains[d] : d \in Range(domains) \cap DOMAIN MentorDomains}

RECURSIVE MentorsPerDomain(_, _)
MentorsPerDomain(us, domains) ==
    IF domains = << >> THEN {<< >>}
    ELSE LET d == Head(domains)
             ids == IF d \in DOMAIN MentorDomains THEN MentorDomains[d] ELSE {}
         IN  {first \o rest : first \in Orderings({u \in us : u.telegram_id \in ids /\ u.is_mentor}),
                              rest \in MentorsPerDomain(us, Tail(domains))}

get_mentors_ignoring_flag(us, domains) ==
    Orderings({u \in us : u.telegram_id \in ConfiguredMentorIds(domains)})

\* get_mentors_for_domains: the possible result lists.  The ids of the requested
\* domains are collected in a set; no id gives [] without a query; otherwise the rows
\* with telegram_id IN that set AND is_mentor, each once, in the order the store
\* returns them.
get_mentors_for_domains(us, domains) ==
    LET mentor_ids == ConfiguredMentorIds(domains)
    IN  IF mentor_ids = {} THEN {<< >>}
        ELSE Orderings({u \in us : u.telegram_id \in mentor_ids /\ u.is_mentor})

---------------------------------------------------------------------------
(* The routing engine's mentor lookup on its own, over a users table filled by
   joins, first messages and the mentor sync *)

\* A row left by an earlier configuration: user MaxUser was admin and mentor then
StaleUsers == {[id |-> 1, telegram_id |-> MaxUser, is_admin |-> TRUE, is_mentor |-> TRUE]}

InitRoute ==
    /\ provider = "openai"
    /\ threshold = Scale
    /\ similarity_threshold = Scale
    /\ users \in {{}, StaleUsers}
    /\ messages = {} /\ modlogs = {} /\ tags = {}
    /\ faqs = << >> /\ faq_seq = 0
    /\ NoObs
    /\ NoRuns

NewMemberJoins ==
    /\ \E telegram_id \in TelegramIds :
          users' = create_or_update_user(users, telegram_id)
    /\ obs' = NoCall
    /\ UNCHANGED <<run, cfgVars, messages, modlogs, faqs, faq_seq, tags, returned, calls>>

MemberWrites ==
    /\ \E telegram_id \in TelegramIds :
          users' = get_or_create_user(users, telegram_id).users
    /\ obs' = NoCall
    /\ UNCHANGED <<run, cfgVars, messages, modlogs, faqs, faq_seq, tags, returned, calls>>

SyncMentorsRuns ==
    /\ users' = sync_mentors(users)
    /\ obs' = NoCall
    /\ UNCHANGED <<run, cfgVars, messages, modlogs, faqs, faq_seq, tags, returned, calls>>

GetMentorsCall ==
    /\ \E domains \in DomainLists :
          \/ obs' = [op |-> "get_mentors_for_domains", arg |-> domains, ret |-> << >>,
                     fault |-> "store"]
          \/ \E mentors \in get_mentors_for_domains(users, domains) :
                obs' = [op |-> "get_mentors_for_domains", arg |-> domains, ret |-> mentors,
                        fault |-> "none"]
    /\ UNCHANGED <<run, cfgVars, storeVars, returned, calls>>

NextRoute ==
    \/ NewMemberJoins
    \/ MemberWrites
    \/ SyncMentorsRuns
    \/ GetMentorsCall

SpecRoute == InitRoute /\ [][NextRoute]_vars

\* C8: a get_mentors_for_domains call that returns gives exactly the stored members
\* whose platform id is in the union of the configured mentor lists of the requested
\* domains and whose is_mentor flag is true, each exactly once.
C8_MentorsAreFlaggedUnion ==
    (obs.op = "get_mentors_for_domains" /\ obs.fault = "none") =>
        LET requested == {obs.arg[i] : i \in DOMAIN obs.arg}
            union == UNION {MentorDomains[d] : d \in requested \cap {"nlp", "cv", "research"}}
            expected == {u \in users : u.telegram_id \in union /\ u.is_mentor = TRUE}
        IN  /\ {obs.ret[i] : i \in DOMAIN obs.ret} = expected
            /\ Len(obs.ret) = Cardinality(expected)

\* C8 witness: both domains of mentor 3 were requested; mentor 3 is flagged and is
\* returned once, while mentor 2 has a row that is not flagged and is left out.
C8_Witness ==
    /\ obs.op = "get_mentors_for_domains" /\ obs.fault = "none"
    /\ obs.arg = <<"nlp", "cv">>
    /\ \E u \in users : u.telegram_id = 3 /\ u.is_mentor
    /\ \E u \in users : u.telegram_id = 2 /\ ~u.is_mentor
    /\ Len(obs.ret) = 1
    /\ obs.ret[1].telegram_id = 3

---------------------------------------------------------------------------
(* handle_message: the orchestrator and its stages, one step per call that can
   fail or wait (store session, provider call, transport call) *)

MaxUpdates == 1     \* updates dispatched to handle_message in one behaviour

\* The provider's reply to a structured-generation request: an API error, text that
\* is not JSON, JSON that is not an object (a list, a number), or an object with the
\* keys in has and their values in val.
ApiError  == [kind |-> "api_error", has |-> {}, val |-> << >>]
BadJson   == [kind |-> "bad_json", has |-> {}, val |-> << >>]
NonObject == [kind |-> "non_object", has |-> {}, val |-> << >>]

JsonObject(has, val) == [kind |-> "object", has |-> has, val |-> val]

\* response_format json_object makes the OpenAI backend answer with an object; the
\* other two providers only ask for JSON in the system prompt.
ReplyKinds == IF provider = "openai" THEN {"api_error", "bad_json", "object"}
              ELSE {"api_error", "bad_json", "non_object", "object"}

\* generate_json: the API error and the JSONDecodeError become LLMProviderError;
\* whatever json.loads returns is returned as it is.
GenerateJsonRaises(reply) == reply.kind \in {"api_error", "bad_json"}

\* response.get(key, default); on a value that is not a dict the attribute is missing
GetRaises(reply) == reply.kind = "non_object"

dict_get(reply, key, default) == IF key \in reply.has THEN reply.val[key] ELSE default

ModerationKeys == {"is_appropriate", "category", "confidence"}

ModerationReplies ==
    {r \in {ApiError, BadJson, NonObject,
            JsonObject({}, NoResult),
            JsonObject(ModerationKeys, [is_appropriate |-> TRUE, category |-> "clean", confidence |-> Scale]),
            JsonObject(ModerationKeys, [is_appropriate |-> FALSE, category |-> "spam", confidence |-> Scale]),
            JsonObject(ModerationKeys, [is_appropriate |-> FALSE, category |-> "spam", confidence |-> Half]),
            JsonObject(ModerationKeys, [is_appropriate |-> FALSE, category |-> "clean", confidence |-> Scale]),
            JsonObject({"is_appropriate", "category"},
                       [is_appropriate |-> FALSE, category |-> "harmful", confidence |-> 0])} :
        r.kind \in ReplyKinds}

moderation_result_suspicious(reply) ==
    [is_appropriate |-> dict_get(reply, "is_appropriate", FALSE),
     category       |-> dict_get(reply, "category", "spam"),
     confidence     |-> dict_get(reply, "confidence", Half)]

\* check_content: the result built from the reply, a missing key taking its default
moderation_result(reply) ==
    [is_appropriate |-> dict_get(reply, "is_appropriate", TRUE),
     category       |-> dict_get(reply, "category", "clean"),
     confidence     |-> dict_get(reply, "confidence", Half)]

\* _log_moderation: the message row is looked up by (user_id, telegram_message_id);
\* more than one such row makes scalar_one_or_none raise, which is caught and leaves
\* no row; otherwise one row is added.
log_moderation(ms, logs, user_id, telegram_message_id, result) ==
    LET found == {m \in ms : m.user_id = user_id /\ m.telegram_message_id = telegram_message_id}
    IN  IF Cardinality(found) > 1 THEN logs
        ELSE logs \cup
             {[id |-> Cardinality(logs) + 1,
               message_id |-> IF found = {} THEN 0 ELSE (CHOOSE m \in found : TRUE).id,
               user_id |-> user_id,
               action |-> IF ~result.is_appropriate THEN "deleted" ELSE "allowed",
               reason |-> result.category,
               confidence |-> result.confidence]}

RoutingKeys == {"complexity", "should_tag_mentors", "domains"}

RoutingReplies ==
    {r \in {ApiError, BadJson, NonObject,
            JsonObject({}, NoDecision),
            JsonObject(RoutingKeys, [complexity |-> "complex", should_tag_mentors |-> TRUE, domains |-> <<"nlp">>]),
            JsonObject(RoutingKeys, [complexity |-> "complex", should_tag_mentors |-> TRUE, domains |-> <<"nlp", "cv">>]),
            JsonObject(RoutingKeys, [complexity |-> "complex", should_tag_mentors |-> TRUE, domains |-> <<"research">>]),
            JsonObject(RoutingKeys, [complexity |-> "simple", should_tag_mentors |-> FALSE, domains |-> <<"nlp">>]),
            JsonObject({"should_tag_mentors"},
                       [complexity |-> "", should_tag_mentors |-> TRUE, domains |-> << >>])} :
        r.kind \in ReplyKinds}

\* analyze_question: the decision built from the reply, a missing key taking its default
routing_decision(reply) ==
    [complexity         |-> dict_get(reply, "complexity", "moderate"),
     should_tag_mentors |-> dict_get(reply, "should_tag_mentors", FALSE),
     domains            |-> dict_get(reply, "domains", << >>)]

\* analyze_question: the decision returned when generate_json raised LLMProviderError
SafeDefault == [complexity |-> "unknown", should_tag_mentors |-> FALSE, domains |-> << >>]

\* if user.is_admin != is_admin or user.is_mentor != is_mentor
flags_changed(user, telegram_id) ==
    user.is_admin # is_admin(telegram_id) \/ user.is_mentor # is_mentor(telegram_id)

\* _log_moderation: scalar_one_or_none raises when more than one Message row has the
\* user_id and telegram_message_id of the check
log_lookup_raises(ms, user_id, telegram_message_id) ==
    Cardinality({m \in ms : m.user_id = user_id /\ m.telegram_message_id = telegram_message_id}) > 1

audit_failure_propagates(rec, kind) == [rec EXCEPT !.log_out = kind, !.pc = "done", !.exc = kind, !.outcome = "error"]

\* _log_moderation's except clause: the failure is logged and check_content goes on
audit_failure(rec, kind) == [rec EXCEPT !.log_out = kind]

\* format_mentor_tags: one mention per mentor, by username or by a link to the
\* platform id; either way the mention designates that member
format_mentor_tags(mentors) == [i \in DOMAIN mentors |-> mentors[i].telegram_id]

tag_mentors_once(ts, message_id, mentor_ids) ==
    IF mentor_ids = << >> THEN ts
    ELSE ts \cup {[id |-> Cardinality(ts) + 1, message_id |-> message_id,
                   mentor_id |-> mentor_ids[1], responded |-> FALSE]}

\* tag_mentors: one MentorTag row per mentor id, with the column default responded
\* = False, added in one session
tag_mentors(ts, message_id, mentor_ids) ==
    ts \cup {[id |-> Cardinality(ts) + i, message_id |-> message_id,
              mentor_id |-> mentor_ids[i], responded |-> FALSE] : i \in DOMAIN mentor_ids}

\* The reply text is built from faq_match.faq.question and faq_match.faq.answer
format_faq_reply(faq_id) == [question |-> faq_id, answer |-> faq_id]

SessionFaults == {"none", "body", "commit"}

get_db_session_autocommit(before, after, fault) ==
    [store  |-> IF fault = "none" \/ after = before THEN after
                ELSE before \cup {CHOOSE row \in after \ before : TRUE},
     raised |-> fault # "none"]

\* get_db_session around a body that takes a table from before to after: the writes
\* are committed when the body and the commit go through; when either fails they are
\* rolled back and the exception is raised again; the session is closed either way
get_db_session(before, after, fault) ==
    [store  |-> IF fault = "none" THEN after ELSE before,
     raised |-> fault # "none"]

is_elevated_admin_only(db_user) == db_user.is_admin

is_elevated_user(db_user) == db_user.is_admin \/ db_user.is_mentor

Emit(rec, event) == [rec EXCEPT !.trace = Append(@, event)]

Raise_propagates(rec, e) == [rec EXCEPT !.pc = "raised", !.exc = e]

\* An exception reaching handle_message's except clause: it is logged and the run ends
Raise(rec, e) == [rec EXCEPT !.pc = "done", !.exc = e, !.outcome = "error"]

\* handle_message returning
Finish(rec, outcome) == [rec EXCEPT !.pc = "done", !.outcome = outcome]

after_moderation_ignores_decision(delete) == "faq_embed"

\* if should_delete: delete and return; otherwise go on to the FAQ stage
after_moderation(delete) == IF delete THEN "delete" ELSE "faq_embed"

after_faq_reply_falls_through(rec) ==
    [Emit([rec EXCEPT !.reply = format_faq_reply(rec.faq_match)], "reply_faq") EXCEPT !.pc = "routing"]

\* if faq_match: reply with the entry's question and answer, and return
after_faq_reply(rec) ==
    Finish(Emit([rec EXCEPT !.reply = format_faq_reply(rec.faq_match)], "reply_faq"), "faq")

faq_failure_propagates(rec, kind) == Raise([rec EXCEPT !.faq_out = kind], kind)

\* find_matching_faq's except clauses: the failure is logged and None is returned, and
\* handle_message goes on to the routing stage
faq_failure(rec, kind) ==
    Emit([rec EXCEPT !.pc = "routing", !.faq_out = kind, !.q = << >>, !.row = 0], "faq_none")

\* find_matching_faq returning None because no row reached the threshold
faq_no_match(rec) ==
    Emit([rec EXCEPT !.pc = "routing", !.faq_out = "no_match", !.q = << >>, !.row = 0], "faq_none")

\* if routing_decision.should_tag_mentors and routing_decision.domains
after_routing(rec, decision) ==
    LET rec1 == Emit([rec EXCEPT !.decision = decision], "route_ret")
    IN  IF decision.should_tag_mentors /\ decision.domains # << >>
        THEN [rec1 EXCEPT !.pc = "get_mentors"]
        ELSE Finish(rec1, "nothing")

\* A users table after the mentor sync: mentors 2 and 3 are flagged, member 1 joined
\* before being made admin, member MaxUser is an ordinary member.
SyncedUsers ==
    {[id |-> 1, telegram_id |-> 2, is_admin |-> FALSE, is_mentor |-> TRUE],
     [id |-> 2, telegram_id |-> 3, is_admin |-> FALSE, is_mentor |-> TRUE],
     [id |-> 3, telegram_id |-> 1, is_admin |-> FALSE, is_mentor |-> FALSE],
     [id |-> 4, telegram_id |-> MaxUser, is_admin |-> FALSE, is_mentor |-> FALSE]}

Init ==
    /\ provider \in Providers
    /\ threshold = Half + 1
    /\ similarity_threshold = Scale - 1
    /\ users \in {{}, StaleUsers, SyncedUsers}
    /\ messages = {} /\ modlogs = {} /\ tags = {}
    /\ faqs = PreExisting
    /\ faq_seq = Len(PreExisting)
    /\ obs = NoCall
    /\ returned = [id \in FaqIds |-> 0]
    /\ calls = 0
    /\ run = [r \in Runs |-> IF r = 1 THEN IdleRun ELSE OffRun]

\* An update without a text message (an edited message, say): handle_message returns
IgnoreUpdate(r) ==
    /\ run[r].pc \in {"idle", "done"}
    /\ calls < MaxUpdates
    /\ run' = [run EXCEPT ![r] = Finish(IdleRun, "ignored")]
    /\ calls' = calls + 1
    /\ UNCHANGED <<cfgVars, storeVars, obs, returned>>

\* A text message arrives from telegram_id
Receive(r) ==
    /\ run[r].pc \in {"idle", "done"}
    /\ calls < MaxUpdates
    /\ \E telegram_id \in TelegramIds, message_id \in 1..(calls + 1) :
          run' = [run EXCEPT ![r] = [IdleRun EXCEPT !.pc = "get_user",
                                                    !.telegram_id = telegram_id,
                                                    !.message_id = message_id]]
    /\ calls' = calls + 1
    /\ UNCHANGED <<cfgVars, storeVars, obs, returned>>

\* _get_or_create_user: the SELECT by telegram_id
GetUserSelect(r) ==
    /\ run[r].pc = "get_user"
    /\ \/ run' = [run EXCEPT ![r] = Raise(@, "StoreError")]
       \/ run' = [run EXCEPT ![r].pc = "write_user",
                             ![r].prior_user = UserRow(users, run[r].telegram_id),
                             ![r].db_user = UserRow(users, run[r].telegram_id)]
    /\ UNCHANGED <<cfgVars, storeVars, obsVars>>

\* _get_or_create_user: the INSERT with the configuration's flags, or the UPDATE of
\* the flags when they differ, and the commit.  telegram_id is unique in the table.
GetUserWrite(r) ==
    /\ run[r].pc = "write_user"
    /\ LET found == run[r].db_user
           tg == run[r].telegram_id
           fresh == [id |-> Cardinality(users) + 1, telegram_id |-> tg,
                     is_admin |-> is_admin(tg), is_mentor |-> is_mentor(tg)]
           synced == [found EXCEPT !.is_admin = is_admin(tg), !.is_mentor = is_mentor(tg)]
       IN  IF found = NoUser
           THEN IF \E u \in users : u.telegram_id = tg
                THEN /\ run' = [run EXCEPT ![r] = Raise(@, "IntegrityError")]
                     /\ users' = users
                ELSE /\ users' = users \cup {fresh}
                     /\ run' = [run EXCEPT ![r].pc = "store_message", ![r].db_user = fresh,
                                           ![r].user_write = "insert"]
           ELSE IF flags_changed(found, tg)
           THEN /\ users' = {IF u.id = found.id THEN synced ELSE u : u \in users}
                /\ run' = [run EXCEPT ![r].pc = "store_message", ![r].db_user = synced,
                                      ![r].user_write = "update"]
           ELSE /\ users' = users
                /\ run' = [run EXCEPT ![r].pc = "store_message", ![r].user_write = "none"]
    /\ UNCHANGED <<cfgVars, messages, modlogs, faqs, faq_seq, tags, obsVars>>

\* _store_message, then the role check on the flags of db_user
StoreMessage(r) ==
    /\ run[r].pc = "store_message"
    /\ \/ /\ run' = [run EXCEPT ![r] = Raise(@, "StoreError")]
          /\ messages' = messages
       \/ LET id == Cardinality(messages) + 1
              rec == Emit([run[r] EXCEPT !.db_message = id], "store_message")
          IN  /\ messages' = messages \cup
                    {[id |-> id, user_id |-> run[r].db_user.id,
                      telegram_message_id |-> run[r].message_id, is_deleted |-> FALSE]}
              /\ run' = [run EXCEPT ![r] =
                            IF is_elevated_user(rec.db_user)
                            THEN Finish(rec, "elevated")
                            ELSE [rec EXCEPT !.pc = "moderation"]]
    /\ UNCHANGED <<cfgVars, users, modlogs, faqs, faq_seq, tags, obsVars>>

\* check_content: the provider call and the result built from its reply
Moderation(r) ==
    /\ run[r].pc = "moderation"
    /\ \E reply \in ModerationReplies :
          LET rec == Emit([run[r] EXCEPT !.mod_out = reply.kind], "mod_call")
          IN  run' = [run EXCEPT ![r] =
                 IF GenerateJsonRaises(reply) THEN Raise(rec, "ModerationError")
                 ELSE IF GetRaises(reply) THEN Raise(rec, "AttributeError")
                 ELSE [rec EXCEPT !.pc = "log_moderation",
                                  !.result = moderation_result(reply)]]
    /\ UNCHANGED <<cfgVars, storeVars, obsVars>>

\* check_content: _log_moderation (a store failure is caught there), then
\* should_delete on the result
LogModeration(r) ==
    /\ run[r].pc = "log_moderation"
    /\ LET delete == should_delete(run[r].result)
           returns == Emit([run[r] EXCEPT !.should_delete = delete,
                                          !.pc = after_moderation(delete)],
                           IF delete THEN "mod_delete" ELSE "mod_keep")
           raises == log_lookup_raises(messages, run[r].db_user.id, run[r].message_id)
       IN  \/ /\ modlogs' = modlogs
              /\ run' = [run EXCEPT ![r] = audit_failure(returns, "StoreError")]
           \/ /\ modlogs' = log_moderation(messages, modlogs, run[r].db_user.id,
                                           run[r].message_id, run[r].result)
              /\ run' = [run EXCEPT ![r] =
                            IF raises THEN audit_failure(returns, "MultipleResultsFound")
                            ELSE [returns EXCEPT !.log_out = "written"]]
    /\ UNCHANGED <<cfgVars, users, messages, faqs, faq_seq, tags, obsVars>>

\* message.delete()
DeleteMessage(r) ==
    /\ run[r].pc = "delete"
    /\ \/ run' = [run EXCEPT ![r] = Raise(@, "TelegramError")]
       \/ run' = [run EXCEPT ![r] = Finish(Emit(@, "delete"), "deleted")]
    /\ UNCHANGED <<cfgVars, storeVars, obsVars>>

\* find_matching_faq: get_embedding of the text
FaqEmbed(r) ==
    /\ run[r].pc = "faq_embed"
    /\ LET rec == Emit(run[r], "faq_call")
       IN  \/ run' = [run EXCEPT ![r] = faq_failure(rec, "embed_error")]
           \/ \E q \in EmbedVectors :
                 run' = [run EXCEPT ![r] = [rec EXCEPT !.pc = "faq_query", !.q = q]]
    /\ UNCHANGED <<cfgVars, storeVars, obsVars>>

\* find_matching_faq: the ranking query and the threshold test on its first row
FaqQuery(r) ==
    /\ run[r].pc = "faq_query"
    /\ LET q == run[r].q
       IN  \/ run' = [run EXCEPT ![r] = faq_failure(@, "query_error")]
           \/ /\ ~QueryRaises(faqs, q)
              /\ TopRows(faqs, q) = {}
              /\ run' = [run EXCEPT ![r] = faq_no_match(@)]
           \/ /\ ~QueryRaises(faqs, q)
              /\ \E id \in TopRows(faqs, q) :
                    run' = [run EXCEPT ![r] =
                       IF SimGEThreshold(RowSimilarity(faqs, id, q), similarity_threshold)
                       THEN [@ EXCEPT !.pc = "faq_select", !.row = id]
                       ELSE faq_no_match(@)]
    /\ UNCHANGED <<cfgVars, storeVars, obsVars>>

\* find_matching_faq: the SELECT of the matched row (scalar_one)
FaqSelect(r) ==
    /\ run[r].pc = "faq_select"
    /\ \/ run' = [run EXCEPT ![r] = faq_failure(@, "select_error")]
       \/ /\ run[r].row \in DOMAIN faqs
          /\ run' = [run EXCEPT ![r].pc = "faq_increment"]
    /\ UNCHANGED <<cfgVars, storeVars, obsVars>>

\* find_matching_faq: _increment_match_count in its own session, then the match is
\* returned; a failure of that session rolls it back and is caught by the caller
FaqIncrement(r) ==
    /\ run[r].pc = "faq_increment"
    /\ \/ /\ run' = [run EXCEPT ![r] = faq_failure(@, "increment_error")]
          /\ faqs' = faqs
       \/ /\ faqs' = increment_match_count(faqs, run[r].row)
          /\ run' = [run EXCEPT ![r] =
                        Emit([@ EXCEPT !.pc = "faq_reply", !.faq_match = run[r].row,
                                       !.faq_out = "match", !.q = << >>], "faq_match")]
    /\ UNCHANGED <<cfgVars, users, messages, modlogs, faq_seq, tags, obsVars>>

\* message.reply_text with the FAQ answer, then return
FaqReply(r) ==
    /\ run[r].pc = "faq_reply"
    /\ \/ run' = [run EXCEPT ![r] = Raise(@, "TelegramError")]
       \/ run' = [run EXCEPT ![r] = after_faq_reply(@)]
    /\ UNCHANGED <<cfgVars, storeVars, obsVars>>

\* analyze_question: the provider call and the decision built from its reply;
\* LLMProviderError is caught and gives the safe default
Routing(r) ==
    /\ run[r].pc = "routing"
    /\ \E reply \in RoutingReplies :
          LET rec == Emit([run[r] EXCEPT !.route_out = reply.kind], "route_call")
          IN  run' = [run EXCEPT ![r] =
                 IF GenerateJsonRaises(reply) THEN after_routing(rec, SafeDefault)
                 ELSE IF GetRaises(reply) THEN Raise(rec, "AttributeError")
                 ELSE after_routing(rec, routing_decision(reply))]
    /\ UNCHANGED <<cfgVars, storeVars, obsVars>>

\* get_mentors_for_domains and the test of its result
GetMentors(r) ==
    /\ run[r].pc = "get_mentors"
    /\ \/ /\ ConfiguredMentorIds(run[r].decision.domains) # {}
          /\ run' = [run EXCEPT ![r] = Raise(@, "StoreError")]
       \/ \E mentors \in get_mentors_for_domains(users, run[r].decision.domains) :
             run' = [run EXCEPT ![r] =
                IF mentors = << >> THEN Finish(@, "nothing")
                ELSE [@ EXCEPT !.pc = "tag_reply", !.mentors = mentors]]
    /\ UNCHANGED <<cfgVars, storeVars, obsVars>>

\* message.reply_text with the mention message
TagReply(r) ==
    /\ run[r].pc = "tag_reply"
    /\ \/ run' = [run EXCEPT ![r] = Raise(@, "TelegramError")]
       \/ run' = [run EXCEPT ![r] =
                     Emit([@ EXCEPT !.pc = "tag_mentors",
                                    !.mention = format_mentor_tags(run[r].mentors)],
                          "reply_tag")]
    /\ UNCHANGED <<cfgVars, storeVars, obsVars>>

\* tag_mentors: one MentorTag row per mentor, in one session
TagMentors(r) ==
    /\ run[r].pc = "tag_mentors"
    /\ \E fault \in SessionFaults :
          LET after == tag_mentors(tags, run[r].db_message,
                                   [i \in DOMAIN run[r].mentors |-> run[r].mentors[i].id])
              out == get_db_session(tags, after, fault)
          IN  /\ tags' = out.store
              /\ run' = [run EXCEPT ![r] = IF out.raised THEN Raise(@, "StoreError")
                                           ELSE Finish(Emit(@, "tag_mentors"), "paged")]
    /\ UNCHANGED <<cfgVars, users, messages, modlogs, faqs, faq_seq, obsVars>>

Next ==
    \E r \in Runs :
        \/ IgnoreUpdate(r)
        \/ Receive(r)
        \/ GetUserSelect(r)
        \/ GetUserWrite(r)
        \/ StoreMessage(r)
        \/ Moderation(r)
        \/ LogModeration(r)
        \/ DeleteMessage(r)
        \/ FaqEmbed(r)
        \/ FaqQuery(r)
        \/ FaqSelect(r)
        \/ FaqIncrement(r)
        \/ FaqReply(r)
        \/ Routing(r)
        \/ GetMentors(r)
        \/ TagReply(r)
        \/ TagMentors(r)

Spec == Init /\ [][Next]_vars

\* a occurs before every occurrence of b in trace t
Precedes(t, a, b) == \A j \in DOMAIN t : t[j] \in b => \E i \in 1..(j - 1) : t[i] \in a

\* C2: a run for an author whose platform id is in the admin list or in a domain's
\* mentor list makes no moderation check, FAQ lookup, routing call, deletion or reply,
\* leaves no ModerationRecord and no MentorTag for its message, and when it returns
\* without an error it has stored exactly one Message row for the message and stopped
\* at the role check, whatever flags the author's stored row had before.
C2_ElevatedAuthorBypasses ==
    \A r \in Runs :
        LET tg == run[r].telegram_id
            configured == tg \in AdminIds \/ (\E d \in DOMAIN MentorDomains : tg \in MentorDomains[d])
        IN  (run[r].pc \notin {"off", "idle"} /\ configured) =>
               /\ Range(run[r].trace) \subseteq {"store_message"}
               /\ run[r].db_message # 0 =>
                     /\ \A l \in modlogs : l.message_id # run[r].db_message
                     /\ \A t \in tags : t.message_id # run[r].db_message
               /\ run[r].faq_match = 0 /\ run[r].row = 0
               /\ (run[r].pc = "done" /\ run[r].exc = "") =>
                     /\ run[r].outcome = "elevated"
                     /\ run[r].trace = <<"store_message">>
                     /\ Cardinality({m \in messages : m.id = run[r].db_message}) = 1
                     /\ \A m \in messages : m.id = run[r].db_message =>
                           /\ m.telegram_message_id = run[r].message_id
                           /\ \E u \in users : u.id = m.user_id /\ u.telegram_id = tg

\* C2 witness: the admin, whose stored row carried no flag, wrote; the row is flagged
\* now, the message is stored and the run has stopped at the role check.
C2_Witness ==
    /\ run[1].pc = "done" /\ run[1].outcome = "elevated" /\ run[1].telegram_id = 1
    /\ [id |-> 3, telegram_id |-> 1, is_admin |-> TRUE, is_mentor |-> FALSE] \in users
    /\ Cardinality(users) = Cardinality(SyncedUsers)
    /\ Cardinality(messages) = 1

\* C3: in a run the FAQ lookup starts only after the moderation check has returned
\* without deciding deletion, and the routing call only after the FAQ lookup has
\* returned no match; after a decision to delete there is no FAQ lookup and no
\* routing call, and after a match there is no routing call and the run that returns
\* without an error has sent the FAQ reply last.
C3_StagesInOrderFirstBranchTerminal ==
    \A r \in Runs :
        LET t == run[r].trace
            events == Range(t)
        IN  /\ Precedes(t, {"store_message"}, {"mod_call"})
            /\ Precedes(t, {"mod_call"}, {"mod_delete", "mod_keep"})
            /\ Precedes(t, {"mod_delete", "mod_keep"}, {"faq_call"})
            /\ Precedes(t, {"faq_call"}, {"faq_none", "faq_match"})
            /\ Precedes(t, {"faq_none"}, {"route_call"})
            /\ Precedes(t, {"route_call"}, {"route_ret", "reply_tag", "tag_mentors"})
            /\ "mod_delete" \in events =>
                  /\ events \cap {"faq_call", "reply_faq", "route_call", "reply_tag"} = {}
                  /\ (run[r].pc = "done" /\ run[r].exc = "") => t[Len(t)] = "delete"
            /\ "delete" \in events => "mod_delete" \in events
            /\ "faq_match" \in events =>
                  /\ events \cap {"route_call", "reply_tag", "delete"} = {}
                  /\ (run[r].pc = "done" /\ run[r].exc = "") => t[Len(t)] = "reply_faq"
            /\ "reply_faq" \in events => "faq_match" \in events

\* C3 witness: a run that passed moderation, matched an FAQ, replied and returned
C3_Witness ==
    /\ run[1].pc = "done" /\ run[1].exc = ""
    /\ run[1].trace = <<"store_message", "mod_call", "mod_keep", "faq_call", "faq_match", "reply_faq">>
    /\ faqs[2].times_matched = InitialCount(2) + 1

\* C9: whenever the structured-generation call of analyze_question fails (API error,
\* text that is not JSON, or JSON that is not an object), analyze_question raises
\* nothing and returns the safe default decision, and the run sends no mention message
\* and creates no MentorTag.
C9_RoutingFailureGivesSafeDefault ==
    \A r \in Runs :
        run[r].route_out \in {"api_error", "bad_json", "non_object"} =>
            /\ run[r].exc = ""
            /\ run[r].decision = SafeDefault
            /\ "reply_tag" \notin Range(run[r].trace)
            /\ \A t \in tags : t.message_id # run[r].db_message

\* C10: after a failure inside find_matching_faq (embedding call, ranking query, row
\* select or counter session) the lookup has returned no match, no FAQ reply is sent,
\* the failure is not the run's exception, and the run is at or past the
\* analyze_question call.
C10_FaqFailureDoesNotAbort ==
    \A r \in Runs :
        run[r].faq_out \in {"embed_error", "query_error", "select_error", "increment_error"} =>
            /\ "faq_none" \in Range(run[r].trace)
            /\ Range(run[r].trace) \cap {"faq_match", "reply_faq"} = {}
            /\ run[r].faq_match = NoMatch
            /\ run[r].exc # run[r].faq_out
            /\ run[r].pc = "routing" \/ "route_call" \in Range(run[r].trace)

\* C10 witness: the embedding call raised (Claude has no embeddings), and the run went
\* on to the routing call and paged the mentors
C10_Witness ==
    /\ provider = "claude"
    /\ run[1].faq_out = "embed_error"
    /\ run[1].pc = "done" /\ run[1].outcome = "paged"
    /\ "route_call" \in Range(run[1].trace)

---------------------------------------------------------------------------
(* Claims about the failure paths and the audit rows of one run *)

ConfiguredElevated(telegram_id) ==
    telegram_id \in AdminIds \/ (\E d \in DOMAIN MentorDomains : telegram_id \in MentorDomains[d])

\* The stored, flagged members of the requested domains' configured mentor lists
ResolvedMentors(domains) ==
    {u \in users : u.is_mentor /\ \E i \in DOMAIN domains :
                       domains[i] \in DOMAIN MentorDomains /\ u.telegram_id \in MentorDomains[domains[i]]}

TagsOf(r) == {t \in tags : run[r].db_message # 0 /\ t.message_id = run[r].db_message}

\* C11: when the provider's structured-generation call fails during a moderation
\* check (API error, text that is not JSON, or JSON that is not an object),
\* check_content raises ModerationError, should_delete is not evaluated and the run
\* ends without calling message.delete().
C11_ModerationFailureRaisesModerationError ==
    \A r \in Runs :
        run[r].mod_out \in {"api_error", "bad_json", "non_object"} =>
            /\ run[r].pc = "done"
            /\ run[r].exc = "ModerationError"
            /\ Range(run[r].trace) \cap {"mod_keep", "mod_delete", "delete"} = {}

\* C13: when the ModerationRecord write fails, check_content still returns the
\* classification, and a run whose should_delete is true goes on to delete the
\* message; when the MentorTag write fails, the mention message naming the mentors
\* has already been sent.
C13_AuditFailureDoesNotBlock ==
    \A r \in Runs :
        /\ run[r].log_out = "StoreError" =>
              /\ Range(run[r].trace) \cap {"mod_keep", "mod_delete"} # {}
              /\ run[r].should_delete = should_delete(run[r].result)
              /\ run[r].should_delete =>
                    \/ run[r].pc = "delete"
                    \/ run[r].pc = "done" /\ "delete" \in Range(run[r].trace)
                    \/ run[r].pc = "done" /\ run[r].exc = "TelegramError"
        /\ (run[r].pc = "done" /\ run[r].exc = "StoreError" /\ run[r].mentors # << >>) =>
              /\ "reply_tag" \in Range(run[r].trace)
              /\ Range(run[r].mention) = {run[r].mentors[i].telegram_id : i \in DOMAIN run[r].mentors}

\* C13 witness: the audit write failed and the message was deleted all the same
C13_Witness ==
    /\ run[1].log_out = "StoreError"
    /\ modlogs = {}
    /\ run[1].should_delete
    /\ run[1].pc = "done" /\ run[1].outcome = "deleted"
    /\ run[1].trace[Len(run[1].trace)] = "delete"

\* C17: a run that paged has created one MentorTag row per resolved mentor, all for
\* the run's Message and all with responded false, and its mention names each of
\* them; a run that returned without error pages whenever routing asked for it and
\* some mentor was resolved; and a run whose routing did not ask for it, or for which
\* no mentor was resolved, has no MentorTag and no mention.
C17_OneTagPerResolvedMentor ==
    \A r \in Runs :
        LET resolved == ResolvedMentors(run[r].decision.domains)
            asked == run[r].decision.should_tag_mentors
        IN  /\ (run[r].pc = "done" /\ run[r].outcome = "paged") =>
                  /\ asked /\ resolved # {}
                  /\ Cardinality(TagsOf(r)) = Cardinality(resolved)
                  /\ {t.mentor_id : t \in TagsOf(r)} = {u.id : u \in resolved}
                  /\ \A t \in TagsOf(r) : t.responded = FALSE
                  /\ Len(run[r].mention) = Cardinality(resolved)
                  /\ Range(run[r].mention) = {u.telegram_id : u \in resolved}
            /\ (run[r].pc = "done" /\ run[r].exc = "" /\ "route_ret" \in Range(run[r].trace)
                  /\ asked /\ resolved # {}) => run[r].outcome = "paged"
            /\ ("route_ret" \in Range(run[r].trace) /\ (~asked \/ resolved = {})) =>
                  /\ TagsOf(r) = {}
                  /\ "reply_tag" \notin Range(run[r].trace)
            /\ "route_ret" \notin Range(run[r].trace) => TagsOf(r) = {}

\* C17 witness: both configured mentors of the requested domain are flagged; two rows
\* were created and the reply named both
C17_Witness ==
    /\ run[1].pc = "done" /\ run[1].outcome = "paged"
    /\ run[1].decision.domains = <<"nlp">>
    /\ Cardinality(tags) = 2
    /\ {t.mentor_id : t \in tags} = {1, 2}
    /\ Range(run[1].mention) = {2, 3}

\* C20: once _get_or_create_user has returned, the returned record is the stored
\* record of the author and its flags are the author's membership of the admin list
\* and of the mentor lists, whatever the stored flags were; the stored record was
\* updated only when a flag differed; and the run stops at the role check exactly
\* when the author is configured as admin or mentor.
C20_RoleFlagsRecomputed ==
    \A r \in Runs :
        run[r].user_write # "" =>
            LET tg == run[r].telegram_id
                u == run[r].db_user
                before == run[r].prior_user
            IN  /\ u.telegram_id = tg
                /\ u.is_admin = (tg \in AdminIds)
                /\ u.is_mentor = (\E d \in DOMAIN MentorDomains : tg \in MentorDomains[d])
                /\ u \in users
                /\ run[r].user_write = "insert" <=> before = NoUser
                /\ run[r].user_write = "update" <=>
                      /\ before # NoUser
                      /\ before.is_admin # u.is_admin \/ before.is_mentor # u.is_mentor
                /\ run[r].user_write = "none" <=> before = u
                /\ "store_message" \in Range(run[r].trace) =>
                      IF ConfiguredElevated(tg)
                      THEN run[r].pc = "done" /\ run[r].outcome = "elevated"
                      ELSE run[r].outcome # "elevated"
                           /\ (run[r].pc = "moderation" \/ "mod_call" \in Range(run[r].trace))

\* C20 witness: the author's row was flagged admin and mentor by an earlier
\* configuration; the flags were cleared and the message went to moderation
C20_Witness ==
    /\ run[1].telegram_id = MaxUser
    /\ run[1].prior_user.is_admin /\ run[1].prior_user.is_mentor
    /\ run[1].user_write = "update"
    /\ \A u \in users : ~u.is_admin /\ ~u.is_mentor
    /\ "mod_call" \in Range(run[1].trace)

---------------------------------------------------------------------------
(* add_faq and delete_faq *)

\* C15: an add_faq call whose embedding computation fails changes nothing in the FAQ
\* store; a call that returns has added exactly one row, and that row carries the
\* embedding; so every row added by add_faq has an embedding, and the rows added are
\* as many as the calls that went through.
C15_AddFaqAtomic ==
    /\ [](/\ \A id \in DOMAIN faqs : id > Len(PreExisting) => faqs[id].embedding \in Vectors
          /\ Cardinality(DOMAIN faqs \ DOMAIN PreExisting) = faq_seq - Len(PreExisting))
    /\ [][obs'.op = "add_faq" =>
             /\ provider = "claude" => obs'.fault = "embed"
             /\ obs'.fault # "none" => (faqs' = faqs /\ faq_seq' = faq_seq)
             /\ obs'.fault = "none" =>
                   /\ faq_seq' = faq_seq + 1
                   /\ obs'.ret = faq_seq'
                   /\ DOMAIN faqs' = DOMAIN faqs \cup {faq_seq'}
                   /\ faq_seq' \notin DOMAIN faqs
                   /\ faqs'[faq_seq'].embedding \in Vectors
                   /\ \A id \in DOMAIN faqs : faqs'[id] = faqs[id]]_vars

\* C15 witness: a call went through and its row is in the store with its embedding
C15_Witness ==
    /\ obs.op = "add_faq" /\ obs.fault = "none"
    /\ faq_seq = Len(PreExisting) + 1
    /\ faq_seq \in DOMAIN faqs
    /\ faqs[faq_seq].embedding \in Vectors

delete_faq_keeps_row(f, faq_id) == [ret |-> faq_id \in DOMAIN f, faqs |-> f]

\* delete_faq: the row is selected by id; when there is one it is deleted and True is
\* returned, otherwise False
delete_faq(f, faq_id) ==
    [ret |-> faq_id \in DOMAIN f, faqs |-> [id \in DOMAIN f \ {faq_id} |-> f[id]]]

InitFaqAdmin ==
    /\ provider = "openai"
    /\ threshold = Scale
    /\ similarity_threshold = Scale
    /\ users = {} /\ messages = {} /\ modlogs = {} /\ tags = {}
    /\ faqs = PreExisting
    /\ faq_seq = Len(PreExisting)
    /\ obs = NoCall
    /\ returned = [id \in FaqIds |-> 0]
    /\ calls = 0
    /\ NoRuns

DeleteFaqCall ==
    /\ calls < MaxCalls
    /\ calls' = calls + 1
    /\ \E faq_id \in FaqIds :
          \/ /\ obs' = [op |-> "delete_faq", arg |-> <<faq_id>>, ret |-> FALSE, fault |-> "store"]
             /\ faqs' = faqs
          \/ /\ obs' = [op |-> "delete_faq", arg |-> <<faq_id>>,
                        ret |-> delete_faq(faqs, faq_id).ret, fault |-> "none"]
             /\ faqs' = delete_faq(faqs, faq_id).faqs
    /\ UNCHANGED <<run, cfgVars, users, messages, modlogs, faq_seq, tags, returned>>

NextFaqAdmin ==
    \/ AddFaqCall
    \/ DeleteFaqCall

SpecFaqAdmin == InitFaqAdmin /\ [][NextFaqAdmin]_vars

\* C16: a delete_faq call that returns gives true exactly when a row with the id
\* existed, and afterwards the store is the one before without that row (unchanged
\* when there was none); a second call with the same id right after it returns false
\* and leaves the store as the first call left it.
C16_DeleteFaqRemovesExactlyTheRow ==
    [][(obs'.op = "delete_faq" /\ calls' = calls + 1 /\ obs'.fault = "none") =>
          LET faq_id == obs'.arg[1]
          IN  /\ obs'.ret = (faq_id \in DOMAIN faqs)
              /\ DOMAIN faqs' = DOMAIN faqs \ {faq_id}
              /\ \A id \in DOMAIN faqs' : faqs'[id] = faqs[id]
              /\ faq_id \notin DOMAIN faqs => faqs' = faqs
              /\ (obs.op = "delete_faq" /\ obs.fault = "none" /\ obs.arg = obs'.arg) =>
                    (obs'.ret = FALSE /\ faqs' = faqs)]_vars

\* C16 witness: row 2 was deleted by the first call, and the second call with the
\* same id has returned false with the other row still there
C16_Witness ==
    /\ obs.op = "delete_faq" /\ obs.fault = "none"
    /\ obs.arg = <<2>> /\ obs.ret = FALSE
    /\ calls = 2
    /\ DOMAIN faqs = {1}
    /\ faqs[1] = PreExisting[1]

---------------------------------------------------------------------------
(* The update queue: updates wait in arrival order and the dispatcher hands them to
   their handlers one at a time *)

never_busy(r) == FALSE

\* The Application is built without concurrent_updates: the handler of an update is
\* awaited before the next update is taken from the queue
Busy(r) == run[r].pc \notin {"off", "idle", "queued", "queued_join", "done", "archived"}

\* What is kept of a handler that has returned once the next one starts: its frame
\* is gone; the author, the rows it wrote and the fate of its audit write remain as
\* the history the runs are counted by
Archived(rec) ==
    [IdleRun EXCEPT !.pc = "archived",
                    !.telegram_id = rec.telegram_id, !.message_id = rec.message_id,
                    !.prior_user = rec.prior_user, !.user_write = rec.user_write,
                    !.db_user = rec.db_user, !.db_message = rec.db_message,
                    !.log_out = rec.log_out,
                    !.outcome = IF rec.outcome = "joined" THEN "joined" ELSE "returned"]

Waiting(r) == run[r].pc \in {"queued", "queued_join"}

InitQueue ==
    /\ provider = "openai"
    /\ threshold = Half + 1
    /\ similarity_threshold = Scale - 1
    /\ users = {}
    /\ messages = {} /\ modlogs = {} /\ tags = {}
    /\ faqs = PreExisting
    /\ faq_seq = Len(PreExisting)
    /\ obs = NoCall
    /\ returned = [id \in FaqIds |-> 0]
    /\ calls = 0
    /\ run = [r \in Runs |-> IdleRun]

\* The platform delivers an update: a text message (possibly one it has delivered
\* before) or the service message of a member joining
Arrive(r) ==
    /\ run[r].pc = "idle"
    /\ \A o \in Runs : o < r => run[o].pc # "idle"
    /\ \E telegram_id \in TelegramIds :
          \/ \E message_id \in 1..r :
                run' = [run EXCEPT ![r] = [IdleRun EXCEPT !.pc = "queued",
                                                          !.telegram_id = telegram_id,
                                                          !.message_id = message_id]]
          \/ run' = [run EXCEPT ![r] = [IdleRun EXCEPT !.pc = "queued_join",
                                                       !.telegram_id = telegram_id]]
    /\ UNCHANGED <<cfgVars, storeVars, obsVars>>

\* The oldest waiting update goes to its handler once no handler is running
Dispatch(r) ==
    /\ Waiting(r)
    /\ \A o \in Runs : o < r => ~Waiting(o)
    /\ \A o \in Runs : ~Busy(o)
    /\ run' = [o \in Runs |->
                  IF o = r
                  THEN [run[r] EXCEPT !.pc = IF run[r].pc = "queued" THEN "get_user"
                                             ELSE "new_member"]
                  ELSE IF run[o].pc = "done" THEN Archived(run[o])
                  ELSE run[o]]
    /\ UNCHANGED <<cfgVars, storeVars, obsVars>>

\* handle_new_member: the member's row is created or refreshed in one session; a
\* failure is caught and logged
HandleNewMember(r) ==
    /\ run[r].pc = "new_member"
    /\ \/ users' = users
       \/ users' = create_or_update_user(users, run[r].telegram_id)
    /\ run' = [run EXCEPT ![r] = Finish(@, "joined")]
    /\ UNCHANGED <<cfgVars, messages, modlogs, faqs, faq_seq, tags, obsVars>>

NextQueue ==
    \E r \in Runs :
        \/ Arrive(r)
        \/ Dispatch(r)
        \/ HandleNewMember(r)
        \/ GetUserSelect(r)
        \/ GetUserWrite(r)
        \/ StoreMessage(r)
        \/ Moderation(r)
        \/ LogModeration(r)
        \/ DeleteMessage(r)
        \/ FaqEmbed(r)
        \/ FaqQuery(r)
        \/ FaqSelect(r)
        \/ FaqIncrement(r)
        \/ FaqReply(r)
        \/ Routing(r)
        \/ GetMentors(r)
        \/ TagReply(r)
        \/ TagMentors(r)

SpecQueue == InitQueue /\ [][NextQueue]_vars

\* The runs of handle_message for a text message
TextRuns == {r \in Runs : run[r].pc \notin {"off", "idle", "queued", "queued_join", "new_member"}
                          /\ run[r].outcome \notin {"joined", "ignored"}}

\* C12: whenever a run is at or past its message.delete() call (the store not having
\* failed in the audit write), a ModerationRecord of that run's check, for that run's
\* Message, is in the store, and it stays there when the delete call fails.
C12_RecordCommittedBeforeDelete ==
    \A r \in TextRuns :
        (run[r].should_delete /\ run[r].log_out # "StoreError") =>
            \E l \in modlogs :
                /\ l.message_id = run[r].db_message
                /\ l.user_id = run[r].db_user.id
                /\ l.reason = run[r].result.category
                /\ l.confidence = run[r].result.confidence

\* C14: when no audit write failed in the store, there are as many ModerationRecords
\* as moderation checks that obtained a classification, also when the same platform
\* message was delivered twice.
C14_OneRecordPerCheck ==
    (\A r \in TextRuns : run[r].log_out # "StoreError") =>
        Cardinality(modlogs) = Cardinality({r \in TextRuns : run[r].log_out # ""})

C19_PlatformIdUniqueImmutable ==
    /\ [](\A u, v \in users : (u.telegram_id = v.telegram_id \/ u.id = v.id) => u = v)
    /\ [][\A u \in users : \E v \in users' : v.id = u.id /\ v.telegram_id = u.telegram_id]_vars

\* C19 witness: the admin joined, which created the row without flags, and then
\* wrote, which flagged that row; there is still one row for the platform id
C19_Witness ==
    /\ run[1].outcome = "joined" /\ run[1].telegram_id = 1
    /\ run[2].telegram_id = 1 /\ run[2].user_write = "update"
    /\ run[2].prior_user = [id |-> 1, telegram_id |-> 1, is_admin |-> FALSE, is_mentor |-> FALSE]
    /\ users = {[id |-> 1, telegram_id |-> 1, is_admin |-> TRUE, is_mentor |-> FALSE]}

---------------------------------------------------------------------------
(* The provider contract and what the stages make of it *)

NotStarted == \A r \in Runs : run[r].pc \in {"off", "idle"}

\* The FAQ service is called on its own (an admin adding an entry, a lookup) before
\* the update is handled, under any of the three providers
NextEmbed ==
    \/ NotStarted /\ NextFaq
    \/ Next

SpecEmbed == Init /\ [][NextEmbed]_vars

\* C22: with the Claude provider every embedding call raises the provider error: every
\* find_matching_faq call has returned no match and moved no counter, every add_faq
\* call has failed and stored nothing, and a run whose moderation check did not
\* decide deletion is at the FAQ lookup or has gone on to the routing call, its
\* lookup having ended without a match and without raising.
C22_NoEmbeddingsProvider ==
    provider = "claude" =>
        /\ obs.op \in {"find_matching_faq", "add_faq"} => (obs.fault = "embed" /\ obs.ret = 0)
        /\ faqs = PreExisting /\ faq_seq = Len(PreExisting)
        /\ \A id \in DOMAIN returned : returned[id] = 0
        /\ \A r \in Runs :
              /\ run[r].faq_match = NoMatch
              /\ run[r].pc \notin {"faq_query", "faq_select", "faq_increment", "faq_reply"}
              /\ "faq_call" \in Range(run[r].trace) =>
                    (run[r].faq_out = "embed_error" /\ run[r].exc # "embed_error")
              /\ "mod_keep" \in Range(run[r].trace) =>
                    \/ run[r].pc \in {"faq_embed", "routing"}
                    \/ "route_call" \in Range(run[r].trace)

\* C22 witness: under Claude an add_faq call failed on the embedding, and then a
\* message passed moderation, found no FAQ and reached the routing call
C22_Witness ==
    /\ provider = "claude"
    /\ obs.op = "add_faq" /\ obs.fault = "embed"
    /\ faqs = PreExisting
    /\ run[1].pc = "done" /\ run[1].exc = ""
    /\ run[1].faq_out = "embed_error"
    /\ "mod_keep" \in Range(run[1].trace) /\ "route_ret" \in Range(run[1].trace)

---------------------------------------------------------------------------
(* check_content on its own: every reply of the provider against every threshold *)

ModerationFields == {"is_appropriate", "category", "confidence", "reason"}

NoReason == "No specific reason"

\* Values a reply may give its fields; an absent field has no value, and the record
\* holds one the defaults differ from
FieldValues ==
    [is_appropriate : BOOLEAN, category : {"clean", "spam"}, confidence : 0..Scale,
     reason : {"looks like an advert"}]

AbsentValues ==
    [is_appropriate |-> FALSE, category |-> "spam", confidence |-> Scale, reason |-> ""]

ObjectReplies ==
    {JsonObject(has, [k \in ModerationFields |-> IF k \in has THEN v[k] ELSE AbsentValues[k]]) :
        has \in SUBSET ModerationFields, v \in FieldValues}

CheckReplies == {r \in {ApiError, BadJson, NonObject} : r.kind \in ReplyKinds} \cup ObjectReplies

\* reason=response.get("reason", "No specific reason")
moderation_reason(reply) == dict_get(reply, "reason", NoReason)

\* check_content and the should_delete that _check_moderation applies to its result:
\* the exception raised, if any, the result and the decision
check_content(reply) ==
    IF GenerateJsonRaises(reply)
    THEN [exc |-> "ModerationError", result |-> NoResult, reason |-> "", delete |-> FALSE]
    ELSE IF GetRaises(reply)
    THEN [exc |-> "AttributeError", result |-> NoResult, reason |-> "", delete |-> FALSE]
    ELSE [exc |-> "", result |-> moderation_result(reply), reason |-> moderation_reason(reply),
          delete |-> should_delete(moderation_result(reply))]

InitCheck ==
    /\ provider \in Providers
    /\ threshold \in 0..Scale
    /\ similarity_threshold = Scale
    /\ EmptyStore
    /\ NoObs
    /\ NoRuns

\* One check of a text by user row 1 whose Message row is not in the store; the audit
\* row is written unless the store fails, which _log_moderation swallows
CheckContentCall ==
    /\ calls < MaxCalls
    /\ calls' = calls + 1
    /\ \E reply \in CheckReplies :
          LET out == check_content(reply)
          IN  /\ obs' = [op |-> "check_content", arg |-> reply, ret |-> out, fault |-> "none"]
              /\ \/ modlogs' = modlogs
                 \/ /\ out.exc = ""
                    /\ modlogs' = log_moderation(messages, modlogs, 1, 1, out.result)
    /\ UNCHANGED <<run, cfgVars, users, messages, faqs, faq_seq, tags, returned>>

NextCheck == CheckContentCall

SpecCheck == InitCheck /\ [][NextCheck]_vars

\* C23: a check whose reply is an object, whichever of the four fields it lacks,
\* returns without error a result in which each missing field has its default
\* (appropriate, "clean", 0.5, the placeholder reason) and each present field the
\* reply's value; and a reply without is_appropriate or without category decides no
\* deletion at any threshold.
C23_MissingFieldsTakeDefaults ==
    (obs.op = "check_content" /\ obs.arg.kind = "object") =>
        LET has == obs.arg.has
            val == obs.arg.val
            res == obs.ret.result
        IN  /\ obs.ret.exc = ""
            /\ res.is_appropriate = IF "is_appropriate" \in has THEN val.is_appropriate ELSE TRUE
            /\ res.category = IF "category" \in has THEN val.category ELSE "clean"
            /\ res.confidence = IF "confidence" \in has THEN val.confidence ELSE Half
            /\ obs.ret.reason = IF "reason" \in has THEN val.reason ELSE NoReason
            /\ ("is_appropriate" \notin has \/ "category" \notin has) => ~obs.ret.delete

\* C23 witness: at threshold 0 a reply carrying only category "spam" and confidence 1
\* was checked: the result is appropriate by default and nothing is deleted
C23_Witness ==
    /\ threshold = 0
    /\ obs.op = "check_content"
    /\ obs.arg.kind = "object"
    /\ obs.arg.has = {"category", "confidence"}
    /\ obs.ret.result = [is_appropriate |-> TRUE, category |-> "spam", confidence |-> Scale]
    /\ obs.ret.reason = NoReason
    /\ ~obs.ret.delete

---------------------------------------------------------------------------
(* What a run shows in the chat *)

VisibleEvents == {"delete", "reply_faq", "reply_tag"}

IsVisible(e) == e \in VisibleEvents

\* The deletions and replies of run r, in the order they were made
Visible(r) == SelectSeq(run[r].trace, IsVisible)

\* C24: a run deletes or replies at most once, and what it shows is decided by the
\* branch it ended in: a run that deleted sent no reply; a run that matched an FAQ
\* sent one reply, with the question and answer of the matched entry; a run that
\* paged sent one mention message; a run that stopped at the role check, found
\* nothing to do, ignored the update or failed before its branch's deletion or reply
\* shows nothing.  (The one failure after a reply is the MentorTag write, which
\* follows the mention message.)
C24_OneVisibleOutcomePerRun ==
    \A r \in Runs :
        LET v == Visible(r)
        IN  /\ Len(v) <= 1
            /\ run[r].outcome = "deleted" => v = <<"delete">>
            /\ run[r].outcome = "faq" =>
                  /\ v = <<"reply_faq">>
                  /\ run[r].faq_match \in DOMAIN faqs
                  /\ run[r].reply = [question |-> run[r].faq_match, answer |-> run[r].faq_match]
            /\ run[r].outcome = "paged" => (v = <<"reply_tag">> /\ run[r].mention # << >>)
            /\ run[r].outcome \in {"elevated", "nothing", "ignored"} => v = << >>
            /\ run[r].outcome = "error" =>
                  \/ v = << >>
                  \/ v = <<"reply_tag">> /\ run[r].exc = "StoreError"
            /\ (run[r].pc = "done" /\ run[r].exc = "" /\ v = << >>) =>
                  run[r].outcome \in {"elevated", "nothing", "ignored"}
            /\ run[r].reply # NoReply <=> "reply_faq" \in Range(v)
            /\ run[r].mention # << >> <=> "reply_tag" \in Range(v)
            /\ "delete" \in Range(v) => (run[r].reply = NoReply /\ run[r].mention = << >>)

\* C24 witness: a run deleted its message and returned, having sent nothing
C24_Witness ==
    /\ run[1].pc = "done" /\ run[1].outcome = "deleted"
    /\ Visible(1) = <<"delete">>
    /\ run[1].reply = NoReply /\ run[1].mention = << >>
    /\ tags = {}

---------------------------------------------------------------------------
(* find_matching_faq called by two callers at once: the counter session of one can
   run between the SELECT and the commit of the other's *)

write_match_count_twice(f, faq_id, read) ==
    [f EXCEPT ![faq_id].times_matched = read + 2]

\* faq.times_matched += 1 at commit: the UPDATE sets the column to the value computed
\* from the one the SELECT read
write_match_count(f, faq_id, read) ==
    [f EXCEPT ![faq_id].times_matched = read + 1]

InitLookup ==
    /\ provider = "openai"
    /\ threshold = Half + 1
    /\ similarity_threshold = Scale - 1
    /\ users = {} /\ messages = {} /\ modlogs = {} /\ tags = {}
    /\ faqs = PreExisting
    /\ faq_seq = Len(PreExisting)
    /\ obs = NoCall
    /\ returned = [id \in FaqIds |-> 0]
    /\ calls = 0
    /\ run = [r \in Runs |-> IdleRun]

\* A caller enters find_matching_faq
BeginLookup(r) ==
    /\ run[r].pc = "idle"
    /\ run' = [run EXCEPT ![r].pc = "faq_embed"]
    /\ UNCHANGED <<cfgVars, storeVars, obsVars>>

\* _increment_match_count: the SELECT of the row in the counter's own session
IncrementRead(r) ==
    /\ run[r].pc = "faq_increment"
    /\ \/ run' = [run EXCEPT ![r] = faq_failure(@, "increment_error")]
       \/ run' = [run EXCEPT ![r] =
                     IF run[r].row \in DOMAIN faqs
                     THEN [@ EXCEPT !.pc = "faq_increment_write",
                                    !.read = faqs[run[r].row].times_matched]
                     ELSE Emit([@ EXCEPT !.pc = "faq_reply", !.faq_match = run[r].row,
                                         !.faq_out = "match", !.q = << >>], "faq_match")]
    /\ UNCHANGED <<cfgVars, storeVars, obsVars>>

\* _increment_match_count: the UPDATE and the commit, then the match is returned
IncrementWrite(r) ==
    /\ run[r].pc = "faq_increment_write"
    /\ \/ /\ run' = [run EXCEPT ![r] = faq_failure(@, "increment_error")]
          /\ faqs' = faqs
       \/ /\ faqs' = write_match_count(faqs, run[r].row, run[r].read)
          /\ run' = [run EXCEPT ![r] =
                        Emit([@ EXCEPT !.pc = "faq_reply", !.faq_match = run[r].row,
                                       !.faq_out = "match", !.q = << >>], "faq_match")]
    /\ UNCHANGED <<cfgVars, users, messages, modlogs, faq_seq, tags, obsVars>>

NextLookup ==
    \E r \in Runs :
        \/ BeginLookup(r)
        \/ FaqEmbed(r)
        \/ FaqQuery(r)
        \/ FaqSelect(r)
        \/ IncrementRead(r)
        \/ IncrementWrite(r)

SpecLookup == InitLookup /\ [][NextLookup]_vars

\* The callers to which find_matching_faq has returned row id
Accepted(id) == {r \in Runs : run[r].faq_match = id}

\* C25: with lookups overlapping, the counter of a row never decreases, every commit
\* of the counter session sets it to the value that session read plus one, and it is
\* never above its initial value plus the number of matches returned on the row, nor
\* below the initial value plus one once a match has been returned.
C25_CounterLastWriterWins ==
    /\ [](\A id \in DOMAIN faqs :
             /\ faqs[id].times_matched <= InitialCount(id) + Cardinality(Accepted(id))
             /\ Accepted(id) # {} => faqs[id].times_matched >= InitialCount(id) + 1
             /\ \A r \in Runs : (run[r].pc = "faq_increment_write" /\ run[r].row = id) =>
                   run[r].read <= faqs[id].times_matched)
    /\ [][\A id \in DOMAIN faqs :
             /\ id \in DOMAIN faqs'
             /\ faqs'[id].times_matched >= faqs[id].times_matched
             /\ faqs'[id].times_matched # faqs[id].times_matched =>
                   \E r \in Runs : /\ run[r].pc = "faq_increment_write" /\ run[r].row = id
                                   /\ faqs'[id].times_matched = run[r].read + 1]_vars

\* C25 witness: two overlapping lookups both matched row 2, whose counter was N; both
\* read N, and the counter is N + 1 after both have committed
C25_Witness ==
    /\ run[1].faq_match = 2 /\ run[2].faq_match = 2
    /\ run[1].read = InitialCount(2) /\ run[2].read = InitialCount(2)
    /\ faqs[2].times_matched = InitialCount(2) + 1

---------------------------------------------------------------------------
(* Units of work *)

\* C26: the writes of a session are committed together or not at all: the MentorTag
\* rows of a run are all the rows of its mentor list when tag_mentors returned and
\* none when it raised; what the earlier sessions of a run committed (the member
\* row, the Message row, the ModerationRecord) is in the store whatever failed
\* later; a step whose session failed left the store as it was; and no step removes
\* a committed row.
C26_UnitOfWorkAllOrNothing ==
    /\ [](\A r \in Runs :
             /\ TagsOf(r) = {} \/ Cardinality(TagsOf(r)) = Len(run[r].mentors)
             /\ (run[r].pc = "done" /\ run[r].outcome = "paged") =>
                   {t.mentor_id : t \in TagsOf(r)} = {run[r].mentors[i].id : i \in DOMAIN run[r].mentors}
             /\ (run[r].pc = "done" /\ run[r].exc # "") => TagsOf(r) = {}
             /\ run[r].user_write # "" => run[r].db_user \in users
             /\ run[r].db_message # 0 =>
                   \E m \in messages : /\ m.id = run[r].db_message
                                       /\ m.user_id = run[r].db_user.id
                                       /\ m.telegram_message_id = run[r].message_id
             /\ run[r].log_out = "written" =>
                   \E l \in modlogs : l.message_id = run[r].db_message)
    /\ [][/\ \A u \in users : \E v \in users' : v.id = u.id
          /\ messages \subseteq messages'
          /\ modlogs \subseteq modlogs'
          /\ tags \subseteq tags'
          /\ \A r \in Runs :
                (run[r].exc = "" /\ run'[r].exc \in {"StoreError", "IntegrityError"}) =>
                    storeVars' = storeVars
          /\ \A r \in Runs :
                (run[r].pc = "log_moderation" /\ run'[r].log_out # "written") =>
                    storeVars' = storeVars]_vars

\* C26 witness: the mention named two mentors and the MentorTag session failed: no
\* row of it is stored, while the member, the message and the moderation record of
\* the run are
C26_Witness ==
    /\ run[1].pc = "done" /\ run[1].exc = "StoreError"
    /\ "reply_tag" \in Range(run[1].trace)
    /\ Len(run[1].mentors) = 2
    /\ tags = {}
    /\ run[1].user_write # "" /\ run[1].db_user \in users
    /\ Cardinality(messages) = 1
    /\ Cardinality(modlogs) = 1

---------------------------------------------------------------------------
(* What the stored rows say about a deletion *)

\* C27: the ModerationRecord of a run's check has action "deleted" exactly when
\* should_delete is true of the check's result (the run goes on to delete the
\* message), and "allowed" exactly when it is false.
C27_RecordedActionIsTheDecision ==
    \A r \in Runs :
        run[r].log_out = "written" =>
            \A l \in modlogs :
                l.message_id = run[r].db_message =>
                    /\ l.action \in {"deleted", "allowed"}
                    /\ l.action = "deleted" <=> should_delete(run[r].result)
                    /\ l.action = "deleted" <=> run[r].should_delete

\* C28: a get_mentors_for_domains call that returns includes every stored member
\* whose platform id is in the configured mentor list of a requested domain, however
\* the member's row came to be (join, first message, mentor sync).
C28_EveryConfiguredMentorWithRecordIncluded ==
    (obs.op = "get_mentors_for_domains" /\ obs.fault = "none") =>
        \A u \in users :
            (\E i \in DOMAIN obs.arg :
                obs.arg[i] \in DOMAIN MentorDomains /\ u.telegram_id \in MentorDomains[obs.arg[i]])
            => \E j \in DOMAIN obs.ret : obs.ret[j].id = u.id

\* C29: once a run has deleted its message on a moderation decision, the Message row
\* of that message is marked deleted; and a Message row is marked deleted only if the
\* run that stored it deleted the message.
C29_DeletedMessageIsMarked ==
    /\ \A r \in Runs :
          "delete" \in Range(run[r].trace) =>
              \E m \in messages : m.id = run[r].db_message /\ m.is_deleted
    /\ \A m \in messages :
          m.is_deleted =>
              \E r \in Runs : run[r].db_message = m.id /\ "delete" \in Range(run[r].trace)

---------------------------------------------------------------------------
(* Termination of handle_message when every call it awaits returns or raises *)

\* One step of the handler in slot r: the call it is waiting for returns or raises
Step(r) ==
    \/ GetUserSelect(r)
    \/ GetUserWrite(r)
    \/ StoreMessage(r)
    \/ Moderation(r)
    \/ LogModeration(r)
    \/ DeleteMessage(r)
    \/ FaqEmbed(r)
    \/ FaqQuery(r)
    \/ FaqSelect(r)
    \/ FaqIncrement(r)
    \/ FaqReply(r)
    \/ Routing(r)
    \/ GetMentors(r)
    \/ TagReply(r)
    \/ TagMentors(r)

SpecLive == Init /\ [][Next]_vars /\ \A r \in Runs : WF_vars(Step(r))

Outcomes == {"ignored", "elevated", "deleted", "faq", "paged", "nothing", "error"}

\* C30: every handle_message invocation that has started finishes, in exactly one of
\* the terminal outcomes; an exception of any call ends the run as a logged error and
\* is not raised out of the handler; and an update without text has written nothing
\* to the store and called no provider.
C30_EveryRunFinishes ==
    /\ [](\A r \in Runs :
             /\ run[r].pc = "done" => run[r].outcome \in Outcomes
             /\ run[r].pc # "done" => run[r].outcome = ""
             /\ run[r].exc # "" <=> run[r].outcome = "error"
             /\ run[r].outcome = "ignored" =>
                   /\ run[r].trace = << >>
                   /\ run[r].user_write = "" /\ run[r].db_message = 0
                   /\ run[r].mod_out = "" /\ run[r].faq_out = "" /\ run[r].route_out = "")
    /\ [][\A r \in Runs :
             (run'[r].outcome = "ignored" /\ calls' # calls) => storeVars' = storeVars]_vars
    /\ \A r \in Runs : (run[r].pc \notin {"off", "idle"}) ~> (run[r].pc = "done")

\* C30 witness: the transport refused the deletion; the run ended as a logged error
C30_Witness ==
    /\ run[1].pc = "done" /\ run[1].outcome = "error" /\ run[1].exc = "TelegramError"
    /\ run[1].should_delete
    /\ "delete" \notin Range(run[1].trace)

====
